---- MODULE Spec2Model ----
(***************************************************************************)
(* Model of dashboard/dashboard.py: the Beijing air-quality dashboard.     *)
(* The script loads one table, derives calendar columns, and then runs     *)
(* three groups of aggregations (time trend, stations, daily categories).  *)
(*                                                                         *)
(* A float is the record [nan, num, den]: NaN, or the rational num/den in  *)
(* lowest terms (floating-point rounding is not modelled).  A Series is a  *)
(* sequence of <<key, value>> pairs; a DataFrame is [columns, rows] with   *)
(* every row a function from "index" and the column names to values.       *)
(* Station names are the integers 1..NumStations in lexicographic order.   *)
(***************************************************************************)
EXTENDS Integers, Sequences, FiniteSets, TLC

VARIABLES parquet, df, pc, ran, tieOrder, sidebar,
          pm25_yearly, pm25_hourly, pm25_daily, pm25_seasonal,
          yearly_pm25, top5, daily_data, dist

vars == <<parquet, df, pc, ran, tieOrder, sidebar,
          pm25_yearly, pm25_hourly, pm25_daily, pm25_seasonal,
          yearly_pm25, top5, daily_data, dist>>

outputs == <<pm25_yearly, pm25_hourly, pm25_daily, pm25_seasonal,
             yearly_pm25, top5, daily_data, dist>>

(***************************** bounds **************************************)
\* stations of the one-row-per-station tables
NumStations == 6
\* most rows of a table with several rows per station
MaxRows == 2

\* head(5)
TopN == 5

\* timestamps <<year, month, day, hour>> of the input tables: two hours of one
\* day, and an hour of another year and season
Timestamps == { <<2013, 3, 1, 0>>, <<2013, 3, 1, 13>>, <<2016, 12, 31, 23>> }

WideTimestamp == <<2013, 3, 1, 0>>

\* PM2.5 readings of the input tables; pairs of them average to 15, 25 and 150
PmValues == {0, 20, 30, 270}

WidePmValues == {20, 30}

(***************************** floats **************************************)
NaN == [nan |-> TRUE, num |-> 0, den |-> 1]

RECURSIVE GCD(_, _)
GCD(a, b) == IF b = 0 THEN a ELSE GCD(b, a % b)

Ratio(n, d) ==
    LET g == GCD(n, d) IN
    IF g = 0 THEN [nan |-> FALSE, num |-> 0, den |-> 1]
    ELSE [nan |-> FALSE, num |-> n \div g, den |-> d \div g]

F(n) == [nan |-> FALSE, num |-> n, den |-> 1]

\* a <= b on floats: false as soon as one side is NaN
Le(a, b) == ~a.nan /\ ~b.nan /\ a.num * b.den <= b.num * a.den

Lt(a, b) == ~a.nan /\ ~b.nan /\ a.num * b.den < b.num * a.den

(***************************** calendar ************************************)
\* days since 1970-01-01 of a proleptic Gregorian date
DaysFromCivil(y, m, d) ==
    LET yy  == IF m <= 2 THEN y - 1 ELSE y
        era == yy \div 400
        yoe == yy - era * 400
        mp  == IF m > 2 THEN m - 3 ELSE m + 9
        doy == (153 * mp + 2) \div 5 + d - 1
        doe == yoe * 365 + yoe \div 4 - yoe \div 100 + doy
    IN era * 146097 + doe - 719468

\* Monday = 0 ... Sunday = 6; 1970-01-01 was a Thursday
DayOfWeek(t) == (DaysFromCivil(t[1], t[2], t[3]) + 3) % 7

Date(t) == <<t[1], t[2], t[3]>>

DateOrdinal(d) == DaysFromCivil(d[1], d[2], d[3])

TimeOrdinal(t) == DateOrdinal(Date(t)) * 24 + t[4]

(***************************** helpers *************************************)
Min(a, b) == IF a <= b THEN a ELSE b

Range(s) == {s[i] : i \in DOMAIN s}

\* the integers of S in ascending order
RECURSIVE SortedInts(_)
SortedInts(S) ==
    IF S = {} THEN <<>>
    ELSE LET x == CHOOSE y \in S : \A z \in S : y <= z
         IN <<x>> \o SortedInts(S \ {x})

\* the dates of S in calendar order
SortedDates(S) ==
    LET ords == SortedInts({DateOrdinal(d) : d \in S})
    IN [i \in 1..Len(ords) |-> CHOOSE d \in S : DateOrdinal(d) = ords[i]]

RECURSIVE SumPm(_)
SumPm(R) ==
    IF R = {} THEN 0
    ELSE LET r == CHOOSE x \in R : TRUE IN r["PM2.5"].num + SumPm(R \ {r})

(***************************** input tables ********************************)
Row(s, t, v) == ("index" :> t) @@ ("station" :> s) @@ ("PM2.5" :> v)

Readings(V) == {NaN} \cup {F(n) : n \in V}

\* the rows of a table: one row for each key of K, its reading taken from V
RowSets(K, V) ==
    { {Row(k[1], k[2], f[k]) : k \in K} : f \in [K -> Readings(V)] }

\* the stations of the tables with several rows per station
DeepStations == {1, 2}

DeepKeys == DeepStations \X Timestamps

\* at most MaxRows rows, several of them of one station or of one day
DeepTables ==
    UNION { RowSets(K, PmValues) :
            K \in {X \in SUBSET DeepKeys : Cardinality(X) <= MaxRows} }

\* one row for each of the stations, all of one hour
WideTables == RowSets((1..NumStations) \X {WideTimestamp}, WidePmValues)

Tables == DeepTables \cup WideTables

ParquetColumns == {"station", "PM2.5"}

(***************************** load and enrich *****************************)
\* pd.read_parquet, then the four calendar columns of the index
load_data(file) ==
    [columns |-> ParquetColumns \cup {"year", "hour", "day_of_week", "month"},
     rows |-> { ("year" :> r["index"][1]) @@ ("hour" :> r["index"][4])
                @@ ("day_of_week" :> DayOfWeek(r["index"]))
                @@ ("month" :> r["index"][2]) @@ r : r \in file }]

\* variant: the lookup with every season one month late
get_season_shifted(month) ==
    IF month \in {1, 2, 3} THEN "Winter"
    ELSE IF month \in {4, 5, 6} THEN "Spring"
    ELSE IF month \in {7, 8, 9} THEN "Summer"
    ELSE "Autumn"

get_season(month) ==
    IF month \in {12, 1, 2} THEN "Winter"
    ELSE IF month \in {3, 4, 5} THEN "Spring"
    ELSE IF month \in {6, 7, 8} THEN "Summer"
    ELSE "Autumn"

\* df['season'] = df['month'].apply(get_season)
WithSeason(d) ==
    [columns |-> d.columns \cup {"season"},
     rows |-> { ("season" :> get_season(r["month"])) @@ r : r \in d.rows }]

Enriched(file) == WithSeason(load_data(file))

(***************************** series **************************************)
\* variant: a missing cell counted as a reading of zero (fillna(0))
MeanFillZero(R) ==
    IF R = {} THEN NaN
    ELSE Ratio(SumPm({r \in R : ~r["PM2.5"].nan}), Cardinality(R))

\* Series.mean() of the PM2.5 cells of the rows R: NaN cells are skipped, and
\* the mean of no cell is NaN
Mean(R) ==
    LET N == {r \in R : ~r["PM2.5"].nan}
    IN IF N = {} THEN NaN ELSE Ratio(SumPm(N), Cardinality(N))

\* the range of an integer calendar column
ColumnRange(col) ==
    IF col = "hour" THEN 0..23
    ELSE IF col = "day_of_week" THEN 0..6
    ELSE IF col = "year" THEN 2013..2017
    ELSE 1..NumStations

\* variant: an entry for every value of the column's range (zero-data keys kept)
GroupByMeanAllKeys(d, col) ==
    LET keys == SortedInts(ColumnRange(col))
    IN [i \in 1..Len(keys) |-> <<keys[i], Mean({r \in d.rows : r[col] = keys[i]})>>]

\* df.groupby(col)['PM2.5'].mean() for an integer column: one entry for each
\* value the column takes, in ascending order
GroupByMean(d, col) ==
    LET keys == SortedInts({r[col] : r \in d.rows})
    IN [i \in 1..Len(keys) |-> <<keys[i], Mean({r \in d.rows : r[col] = keys[i]})>>]

\* the season names in the order groupby sorts them
SeasonsSorted == <<"Autumn", "Spring", "Summer", "Winter">>

GroupBySeasonMean(d) ==
    LET keys == SelectSeq(SeasonsSorted, LAMBDA s : \E r \in d.rows : r["season"] = s)
    IN [i \in 1..Len(keys) |-> <<keys[i], Mean({r \in d.rows : r["season"] = keys[i]})>>]

\* variant: reindex(keys, fill_value=0)
ReindexFillZero(entries, keys) ==
    [i \in 1..Len(keys) |->
        IF \E e \in entries : e[1] = keys[i]
        THEN CHOOSE e \in entries : e[1] = keys[i]
        ELSE <<keys[i], F(0)>>]

\* Series.reindex(keys): the entries in the order of keys, NaN for a key the
\* series does not have
Reindex(entries, keys) ==
    [i \in 1..Len(keys) |->
        IF \E e \in entries : e[1] = keys[i]
        THEN CHOOSE e \in entries : e[1] = keys[i]
        ELSE <<keys[i], NaN>>]

SeasonOrder == <<"Spring", "Summer", "Autumn", "Winter">>

(***************************** tab 1: time trend ***************************)
Tab1Out(d) ==
    [pm25_yearly   |-> GroupByMean(d, "year"),
     pm25_hourly   |-> GroupByMean(d, "hour"),
     pm25_daily    |-> GroupByMean(d, "day_of_week"),
     pm25_seasonal |-> Reindex(Range(GroupBySeasonMean(d)), SeasonOrder)]

(***************************** tab 2: stations *****************************)
\* df.groupby(['year', 'station'])['PM2.5'].mean().reset_index()
YearStationMeans(d) ==
    LET years == SortedInts({r["year"] : r \in d.rows})
        stationsOf(y) == SortedInts({r["station"] : r \in {x \in d.rows : x["year"] = y}})
        block(y) == [j \in 1..Len(stationsOf(y)) |->
                        [year |-> y, station |-> stationsOf(y)[j],
                         mean |-> Mean({r \in d.rows : r["year"] = y
                                          /\ r["station"] = stationsOf(y)[j]})]]
        blocks[i \in 0..Len(years)] ==
            IF i = 0 THEN <<>> ELSE blocks[i - 1] \o block(years[i])
    IN blocks[Len(years)]

\* whether entry i of the series s is placed before entry j by the descending
\* sort: the larger value first; where the values are equal the default
\* kind ('quicksort') promises no order, and tie says which one the build leaves
SortsBefore(s, i, j, tie) ==
    \/ Lt(s[j][2], s[i][2])
    \/ /\ ~Lt(s[i][2], s[j][2])
       /\ IF tie = "ascending" THEN i < j ELSE i > j

RECURSIVE Arranged(_, _, _)
Arranged(s, I, tie) ==
    IF I = {} THEN <<>>
    ELSE LET first == CHOOSE i \in I : \A j \in I \ {i} : SortsBefore(s, i, j, tie)
         IN <<s[first]>> \o Arranged(s, I \ {first}, tie)

\* Series.sort_values(ascending=False): the defined values in descending
\* order, then the NaN entries in their order in the series
SortValuesDescending(s, tie) ==
    Arranged(s, {i \in DOMAIN s : ~s[i][2].nan}, tie)
        \o SelectSeq(s, LAMBDA e : e[2].nan)

\* Series.head(n)
HeadN(s, n) == SubSeq(s, 1, Min(n, Len(s)))

Tab2Out(d, tie) ==
    [yearly_pm25 |-> YearStationMeans(d),
     top5 |-> HeadN(SortValuesDescending(GroupByMean(d, "station"), tie), TopN)]

(***************************** tab 3: air quality **************************)
\* variant: the thresholds compared with <, a boundary value in the upper category
categorize_pm25_strict(pm25) ==
    IF Lt(pm25, F(15)) THEN "Good"
    ELSE IF Lt(pm25, F(25)) THEN "Moderate"
    ELSE IF Lt(pm25, F(150)) THEN "Unhealthy"
    ELSE "Very Unhealthy"

categorize_pm25(pm25) ==
    IF Le(pm25, F(15)) THEN "Good"
    ELSE IF Le(pm25, F(25)) THEN "Moderate"
    ELSE IF Le(pm25, F(150)) THEN "Unhealthy"
    ELSE "Very Unhealthy"

\* variant: the date added and every reading replaced by the mean of its
\* station's day
WithDateResampled(d) ==
    [columns |-> d.columns \cup {"date"},
     rows |-> { ("date" :> Date(r["index"]))
                @@ ("PM2.5" :> Mean({x \in d.rows : x["station"] = r["station"]
                                        /\ Date(x["index"]) = Date(r["index"])}))
                @@ r : r \in d.rows }]

\* df['date'] = df.index.date
WithDate(d) ==
    [columns |-> d.columns \cup {"date"},
     rows |-> { ("date" :> Date(r["index"])) @@ r : r \in d.rows }]

\* df.groupby(['station', 'date'])['PM2.5'].mean().reset_index(), and the
\* category column applied to it
DailyData(d) ==
    LET stations == SortedInts({r["station"] : r \in d.rows})
        datesOf(s) == SortedDates({r["date"] : r \in {x \in d.rows : x["station"] = s}})
        dayMean(s, dt) == Mean({r \in d.rows : r["station"] = s /\ r["date"] = dt})
        block(s) == [j \in 1..Len(datesOf(s)) |->
                        [station |-> s, date |-> datesOf(s)[j],
                         mean |-> dayMean(s, datesOf(s)[j]),
                         category |-> categorize_pm25(dayMean(s, datesOf(s)[j]))]]
        blocks[i \in 0..Len(stations)] ==
            IF i = 0 THEN <<>> ELSE blocks[i - 1] \o block(stations[i])
    IN blocks[Len(stations)]

\* Series.value_counts(): one entry for each value that occurs
ValueCounts(daily) ==
    { <<c, F(Cardinality({i \in DOMAIN daily : daily[i].category = c}))>> :
        c \in {daily[i].category : i \in DOMAIN daily} }

CategoryOrder == <<"Good", "Moderate", "Unhealthy", "Very Unhealthy">>

Tab3Out(d) ==
    LET daily == DailyData(d)
    IN [daily_data |-> daily,
        dist |-> Reindex(ValueCounts(daily), CategoryOrder)]

(***************************** the script **********************************)
NoTable == [columns |-> {}, rows |-> {}]

InitCommon ==
    /\ parquet \in Tables
    /\ tieOrder \in {"ascending", "descending"}
    /\ ran = <<>>
    /\ sidebar = <<>>
    /\ pm25_yearly = <<>> /\ pm25_hourly = <<>> /\ pm25_daily = <<>>
    /\ pm25_seasonal = <<>>
    /\ yearly_pm25 = <<>> /\ top5 = <<>>
    /\ daily_data = <<>> /\ dist = <<>>

Init ==
    /\ InitCommon
    /\ df = NoTable
    /\ pc = "load"

\* df = load_data()
LoadData ==
    /\ pc = "load"
    /\ df' = load_data(parquet)
    /\ pc' = "season"
    /\ UNCHANGED <<parquet, ran, tieOrder, sidebar, outputs>>

\* df['season'] = df['month'].apply(get_season)
ApplySeason ==
    /\ pc = "season"
    /\ df' = WithSeason(df)
    /\ pc' = "sidebar"
    /\ UNCHANGED <<parquet, ran, tieOrder, sidebar, outputs>>

FirstIndex(d) == CHOOSE t \in {r["index"] : r \in d.rows} :
                    \A r \in d.rows : TimeOrdinal(t) <= TimeOrdinal(r["index"])

LastIndex(d) == CHOOSE t \in {r["index"] : r \in d.rows} :
                    \A r \in d.rows : TimeOrdinal(t) >= TimeOrdinal(r["index"])

\* the sidebar's statistics; df.index.min() of a table without rows is NaT,
\* whose strftime raises
Sidebar ==
    /\ pc = "sidebar"
    /\ IF df.rows = {}
       THEN /\ pc' = "raised"
            /\ UNCHANGED sidebar
       ELSE /\ sidebar' = [total_observasi |-> Cardinality(df.rows),
                           total_stasiun |-> Cardinality({r["station"] : r \in df.rows}),
                           start_date |-> Date(FirstIndex(df)),
                           end_date |-> Date(LastIndex(df))]
            /\ pc' = "tab1"
    /\ UNCHANGED <<parquet, df, ran, tieOrder, outputs>>

\* ran lists the tabs whose code has run, in the order they ran
HasRun(tab) == \E i \in DOMAIN ran : ran[i] = tab

RunTab1 ==
    /\ LET o == Tab1Out(df)
       IN /\ pm25_yearly' = o.pm25_yearly
          /\ pm25_hourly' = o.pm25_hourly
          /\ pm25_daily' = o.pm25_daily
          /\ pm25_seasonal' = o.pm25_seasonal
    /\ ran' = Append(ran, "tab1")
    /\ UNCHANGED <<parquet, df, tieOrder, sidebar, yearly_pm25, top5, daily_data, dist>>

RunTab2 ==
    /\ LET o == Tab2Out(df, tieOrder)
       IN /\ yearly_pm25' = o.yearly_pm25
          /\ top5' = o.top5
    /\ ran' = Append(ran, "tab2")
    /\ UNCHANGED <<parquet, df, tieOrder, sidebar, pm25_yearly, pm25_hourly,
                   pm25_daily, pm25_seasonal, daily_data, dist>>

RunTab3 ==
    /\ df' = WithDate(df)
    /\ LET o == Tab3Out(df')
       IN /\ daily_data' = o.daily_data
          /\ dist' = o.dist
    /\ ran' = Append(ran, "tab3")
    /\ UNCHANGED <<parquet, tieOrder, sidebar, pm25_yearly, pm25_hourly,
                   pm25_daily, pm25_seasonal, yearly_pm25, top5>>

Tab1 == pc = "tab1" /\ RunTab1 /\ pc' = "tab2"

Tab2 == pc = "tab2" /\ RunTab2 /\ pc' = "tab3"

Tab3 == pc = "tab3" /\ RunTab3 /\ pc' = "done"

Next == LoadData \/ ApplySeason \/ Sidebar \/ Tab1 \/ Tab2 \/ Tab3

Spec == Init /\ [][Next]_vars

(*************** the aggregations of an enriched table, in any order ********)
InitAnyOrder ==
    /\ InitCommon
    /\ df = Enriched(parquet)
    /\ pc = "tabs"

AnyTab1 == pc = "tabs" /\ ~HasRun("tab1") /\ RunTab1 /\ UNCHANGED pc

AnyTab2 == pc = "tabs" /\ ~HasRun("tab2") /\ RunTab2 /\ UNCHANGED pc

AnyTab3 == pc = "tabs" /\ ~HasRun("tab3") /\ RunTab3 /\ UNCHANGED pc

NextAnyOrder == AnyTab1 \/ AnyTab2 \/ AnyTab3

SpecAnyOrder == InitAnyOrder /\ [][NextAnyOrder]_vars

\* the summary tables the script computes from a file: tab 1 and tab 2 read
\* the enriched table, tab 3 the table it has added the date to
ScriptTab1(file) == Tab1Out(Enriched(file))

ScriptTab2(file, tie) == Tab2Out(Enriched(file), tie)

ScriptTab3(file) == Tab3Out(WithDate(Enriched(file)))

(***************************** properties **********************************)
\* the season of each month, as the specification tabulates it
SeasonOfMonth ==
    <<"Winter", "Winter", "Spring", "Spring", "Spring", "Summer",
      "Summer", "Summer", "Autumn", "Autumn", "Autumn", "Winter">>

\* the rows of the file with a reading
Observed == {r \in parquet : ~r["PM2.5"].nan}

\* v is the arithmetic mean of the readings of the rows R that have one, and
\* is missing when none has
IsMeanOf(v, R) ==
    LET N == R \cap Observed
    IN IF N = {} THEN v.nan
       ELSE ~v.nan /\ v.num * Cardinality(N) = v.den * SumPm(N)

\* the sum of the counts of a distribution, a missing count adding nothing
CountSum(d) ==
    LET part[i \in 0..Len(d)] ==
            IF i = 0 THEN 0
            ELSE part[i - 1] + (IF d[i][2].nan THEN 0 ELSE d[i][2].num)
    IN part[Len(d)]

\* C1: the four category counts sum to the number of distinct (station, date)
\* pairs that have at least one non-missing PM2.5 reading on that day; a pair
\* whose readings are all missing is counted in no category.
C1_CountsSumToObservedDays ==
    HasRun("tab3") =>
        CountSum(dist) = Cardinality({<<r["station"], Date(r["index"])>> : r \in Observed})

\* C2: a non-missing value is Good iff v <= 15, Moderate iff 15 < v <= 25,
\* Unhealthy iff 25 < v <= 150 and Very Unhealthy iff v > 150, so 15, 25 and
\* 150 fall in the lower category and every value has exactly one category.
C2_CategoryBoundaries ==
    HasRun("tab3") =>
        \A i \in DOMAIN daily_data :
            LET n == daily_data[i].mean.num
                d == daily_data[i].mean.den
                c == daily_data[i].category
            IN ~daily_data[i].mean.nan =>
                /\ (c = "Good") <=> (n <= 15 * d)
                /\ (c = "Moderate") <=> (15 * d < n /\ n <= 25 * d)
                /\ (c = "Unhealthy") <=> (25 * d < n /\ n <= 150 * d)
                /\ (c = "Very Unhealthy") <=> (n > 150 * d)
                /\ c \in Range(CategoryOrder)

\* a day with two readings whose mean is exactly 150 is Unhealthy
C2_Witness ==
    /\ HasRun("tab3")
    /\ \E i \in DOMAIN daily_data :
          /\ daily_data[i].mean = F(150) /\ daily_data[i].category = "Unhealthy"
          /\ \E r \in parquet : r["station"] = daily_data[i].station /\ r["PM2.5"] = F(270)

\* C3: every month 1..12 has exactly one season, by the fixed lookup
\* {12,1,2} Winter, {3,4,5} Spring, {6,7,8} Summer, {9,10,11} Autumn; the
\* season column of the table holds the season of each row's month.
C3_SeasonPartition ==
    /\ \A m \in 1..12 : get_season(m) = SeasonOfMonth[m]
    /\ "season" \in df.columns =>
          \A r \in df.rows : r["season"] = SeasonOfMonth[r["index"][2]]

\* the season column is set, and holds Spring and Winter rows
C3_Witness ==
    /\ pc = "sidebar"
    /\ \E r, q \in df.rows : r["season"] = "Spring" /\ q["season"] = "Winter"

\* C4: top5 holds the (at most 5) stations of highest mean in descending
\* order of mean, the lexicographically earlier name first where two means
\* are equal, and all the stations when there are fewer than 5.
C4_TopStationsOrdered ==
    HasRun("tab2") =>
        /\ Len(top5) = Min(TopN, Cardinality({r["station"] : r \in parquet}))
        /\ \A i \in DOMAIN top5 : IsMeanOf(top5[i][2], {r \in parquet : r["station"] = top5[i][1]})
        /\ \A i, j \in DOMAIN top5 :
              (i < j /\ ~top5[i][2].nan /\ ~top5[j][2].nan) =>
                  /\ ~Lt(top5[i][2], top5[j][2])
                  /\ top5[i][2] = top5[j][2] => top5[i][1] < top5[j][1]

\* C5: dist holds an integer count for each of the four categories, and the
\* count of a category no daily mean belongs to is zero, not a missing entry.
C5_ZeroCounts ==
    HasRun("tab3") =>
        /\ Len(dist) = Len(CategoryOrder)
        /\ \A i \in DOMAIN dist :
              /\ dist[i][1] = CategoryOrder[i]
              /\ ~dist[i][2].nan
              /\ dist[i][2] = F(Cardinality({j \in DOMAIN daily_data :
                                               daily_data[j].category = CategoryOrder[i]}))

\* C6: pm25_seasonal lists Spring, Summer, Autumn, Winter in that order for
\* every table; a season without rows has a missing value (its key is kept
\* and its value is not zero), while a season with readings has their mean,
\* which is zero only when the readings are.
C6_SeasonalOrderAndMissing ==
    HasRun("tab1") =>
        /\ Len(pm25_seasonal) = 4
        /\ \A i \in DOMAIN pm25_seasonal :
              LET R == {r \in parquet : SeasonOfMonth[r["index"][2]] = SeasonOrder[i]}
              IN /\ pm25_seasonal[i][1] = <<"Spring", "Summer", "Autumn", "Winter">>[i]
                 /\ R = {} => pm25_seasonal[i][2].nan
                 /\ IsMeanOf(pm25_seasonal[i][2], R)

\* Spring has mean zero while Summer has no rows
C6_Witness ==
    /\ HasRun("tab1")
    /\ pm25_seasonal[1][2] = F(0)
    /\ pm25_seasonal[2][2].nan
    /\ ~\E r \in parquet : SeasonOfMonth[r["index"][2]] = "Summer"

\* a Series of the keys in order, every value missing
AllMissing(s, keys) ==
    /\ Len(s) = Len(keys)
    /\ \A i \in DOMAIN s : s[i][1] = keys[i] /\ s[i][2].nan

C8_MeansSkipMissing ==
    /\ HasRun("tab1") =>
          /\ {pm25_yearly[i][1] : i \in DOMAIN pm25_yearly} = {r["index"][1] : r \in parquet}
          /\ \A i \in DOMAIN pm25_yearly :
                IsMeanOf(pm25_yearly[i][2], {r \in parquet : r["index"][1] = pm25_yearly[i][1]})
          /\ \A i \in DOMAIN pm25_hourly :
                IsMeanOf(pm25_hourly[i][2], {r \in parquet : r["index"][4] = pm25_hourly[i][1]})
          /\ \A i \in DOMAIN pm25_daily :
                IsMeanOf(pm25_daily[i][2],
                         {r \in parquet : DayOfWeek(r["index"]) = pm25_daily[i][1]})
    /\ HasRun("tab2") =>
          /\ \A i \in DOMAIN top5 :
                IsMeanOf(top5[i][2], {r \in parquet : r["station"] = top5[i][1]})
          /\ \A i, j \in DOMAIN top5 : (i < j /\ top5[i][2].nan) => top5[j][2].nan
          /\ \A r \in Observed :
                (\A i \in DOMAIN top5 : top5[i][1] # r["station"]) =>
                    \A i \in DOMAIN top5 : ~top5[i][2].nan

\* six stations, one of them with a missing reading only: the ranking holds
\* the five others, and the mean of the year leaves the missing reading out
C8_Witness ==
    /\ pc = "done"
    /\ Cardinality({r["station"] : r \in parquet}) = 6
    /\ Cardinality({r["station"] : r \in Observed}) = 5
    /\ Len(top5) = 5
    /\ \A i \in DOMAIN top5 : ~top5[i][2].nan
    /\ Len(pm25_yearly) = 1 /\ ~pm25_yearly[1][2].nan

\* C9: once the table is loaded and enriched, no later step adds, removes or
\* changes a column or a row of it.
C9_TableOnlyRead ==
    [][(pc \in {"sidebar", "tab1", "tab2", "tab3"}) => (df' = df)]_vars

\* C10: whatever the order in which the three groups of aggregations run,
\* each produces the summary tables it produces in the script's order.
C10_OrderIndependent ==
    /\ HasRun("tab1") =>
          LET s == ScriptTab1(parquet)
          IN /\ pm25_yearly = s.pm25_yearly /\ pm25_hourly = s.pm25_hourly
             /\ pm25_daily = s.pm25_daily /\ pm25_seasonal = s.pm25_seasonal
    /\ HasRun("tab2") =>
          LET s == ScriptTab2(parquet, tieOrder)
          IN yearly_pm25 = s.yearly_pm25 /\ top5 = s.top5
    /\ HasRun("tab3") =>
          LET s == ScriptTab3(parquet)
          IN daily_data = s.daily_data /\ dist = s.dist

\* the tabs ran in the reverse of the script's order, over a table in
\* which a day has a missing and a non-missing reading
C10_Witness ==
    /\ ran = <<"tab3", "tab2", "tab1">>
    /\ \E r, q \in parquet :
          /\ r["station"] = q["station"] /\ Date(r["index"]) = Date(q["index"])
          /\ r["PM2.5"].nan /\ ~q["PM2.5"].nan

====
